---------------------------- MODULE Spec2Model ----------------------------
(***************************************************************************)
(* A model of the array core of src/src/algorithm.rs: the Value verbs      *)
(* (take, drop, rotate, pick, select, windows, reshape, grade, classify,   *)
(* member), the argument decoders and the shape kernels they call.         *)
(*                                                                         *)
(* A number is an IEEE double in the code.  Here a number is held in       *)
(* fixed point: the integer h stands for the double h / Den, so that the   *)
(* decoders' integer tests (f % 1.0 == 0.0, f - f.round()) can fail.       *)
(*                                                                         *)
(* A Value is a record:                                                    *)
(*   [ty |-> "num",  v |-> h]        the number h / Den                    *)
(*   [ty |-> "char", v |-> c]        the character with code point c       *)
(*   [ty |-> "fn",   v |-> id]       a function handle                     *)
(*   [ty |-> "arr", aty, shape, data] an Array: aty is its storage variant *)
(*       ("num", "char" or "value"), data its flat storage as Values.      *)
(***************************************************************************)
EXTENDS Integers, Sequences, FiniteSets, TLC

\* Largest extent of an axis of the arrays the verbs are called on.
MaxExt == 3

\* Denominator of the fixed-point numbers: the double x is the integer x * Den.
Den == 2

---------------------------------------------------------------------------
(* Values *)

Num(h) == [ty |-> "num", v |-> h]

\* The double with the integer value k (i as f64).
N(k) == Num(k * Den)

Chr(c) == [ty |-> "char", v |-> c]

Fn == [ty |-> "fn", v |-> 0]

Arr(aty, shape, data) == [ty |-> "arr", aty |-> aty, shape |-> shape, data |-> data]

\* The code point of the space character.
Space == 32

is_array(v) == v.ty = "arr"

is_num(v) == v.ty = "num"

is_char(v) == v.ty = "char"

RECURSIVE Prod(_)
Prod(s) == IF s = <<>> THEN 1 ELSE Head(s) * Prod(Tail(s))

Abs(i) == IF i < 0 THEN -i ELSE i

Min(a, b) == IF a < b THEN a ELSE b

Max(a, b) == IF a < b THEN b ELSE a

SetMin(S) == CHOOSE x \in S : \A y \in S : x <= y

RECURSIVE Concat(_)
Concat(ss) == IF ss = <<>> THEN <<>> ELSE Head(ss) \o Concat(Tail(ss))

Take(s, n) == SubSeq(s, 1, n)

Drop(s, n) == SubSeq(s, n + 1, Len(s))

Reverse(s) == [i \in 1..Len(s) |-> s[Len(s) + 1 - i]]

\* Value::rank
rank(v) == IF is_array(v) THEN Len(v.shape) ELSE 0

\* Value::shape
shape(v) == IF is_array(v) THEN v.shape ELSE <<>>

---------------------------------------------------------------------------
(* The Array container (array.rs, not among the source files): modelled    *)
(* from the data model of the specification.                               *)

\* Array::from(scalar): a rank-0 array holding the scalar.
ArrayFromScalar(v) ==
    Arr(IF v.ty \in {"num", "char"} THEN v.ty ELSE "value", <<>>, <<v>>)

\* Array::from(Vec<T>): a rank-1 array of the elements.
ArrayFromVec(aty, data) == Arr(aty, <<Len(data)>>, data)

\* Array::from((shape, data)): the shape and the storage as given.
ArrayFromShapeData(aty, shp, data) == Arr(aty, shp, data)

\* Array::from(Vec<Array>): the arrays become the major cells of the result.
ArrayFromArrays(arrs) ==
    IF arrs = <<>> THEN Arr("num", <<0>>, <<>>)
    ELSE Arr(arrs[1].aty, <<Len(arrs)>> \o arrs[1].shape,
             Concat([i \in 1..Len(arrs) |-> arrs[i].data]))

\* Array::into_cells: the major cells, each an array of shape shape[1:].
into_cells(a) ==
    LET size == Prod(Tail(a.shape))
    IN  [i \in 1..a.shape[1] |->
            Arr(a.aty, Tail(a.shape), SubSeq(a.data, (i - 1) * size + 1, i * size))]

\* Array::into_values: the major cells as Values: the elements of a rank-1
\* array, the sub-arrays of an array of higher rank, the one element of a
\* rank-0 array.
into_values(a) ==
    IF Len(a.shape) <= 1 THEN a.data ELSE into_cells(a)

\* Array::normalized(depth): a Values storage whose cells are scalars of one
\* scalar type is folded into the homogeneous storage, the shape unchanged;
\* at depth >= 1 a Values storage whose cells are arrays of one shape t and
\* one homogeneous storage is folded, its cells becoming the major cells of
\* the result (shape [number of cells] ++ t).  Cells without elements have no
\* element type to differ in.
normalized(a, depth) ==
    IF a.aty # "value" THEN a
    ELSE IF \A i \in 1..Len(a.data) : is_num(a.data[i]) THEN [a EXCEPT !.aty = "num"]
    ELSE IF \A i \in 1..Len(a.data) : is_char(a.data[i]) THEN [a EXCEPT !.aty = "char"]
    ELSE IF /\ depth >= 1
            /\ \A i \in 1..Len(a.data) :
                  /\ is_array(a.data[i])
                  /\ a.data[i].aty \in {"num", "char"}
                  /\ (a.data[i].aty = a.data[1].aty \/ a.data[i].data = <<>>)
                  /\ a.data[i].shape = a.data[1].shape
         THEN Arr(a.data[1].aty, <<Len(a.data)>> \o a.data[1].shape,
                  Concat([i \in 1..Len(a.data) |-> a.data[i].data]))
    ELSE a

\* Value::coerce_array: a scalar becomes a rank-0 array, an array stays.
coerce_array(v) == IF is_array(v) THEN v ELSE ArrayFromScalar(v)

\* Ord for Value: numbers < characters < arrays; numbers by value, characters
\* by code point, arrays by shape and then by cells, both lexicographically.
TyRank(v) == CASE v.ty = "num" -> 0 [] v.ty = "char" -> 1 [] v.ty = "arr" -> 2 [] OTHER -> 3

IntCmp(a, b) == IF a < b THEN -1 ELSE IF a > b THEN 1 ELSE 0

RECURSIVE IntSeqCmp(_, _)
IntSeqCmp(s, t) ==
    IF s = <<>> THEN (IF t = <<>> THEN 0 ELSE -1)
    ELSE IF t = <<>> THEN 1
    ELSE IF Head(s) # Head(t) THEN IntCmp(Head(s), Head(t))
    ELSE IntSeqCmp(Tail(s), Tail(t))

RECURSIVE ValueCmp(_, _)
ValueCmp(a, b) ==
    IF TyRank(a) # TyRank(b) THEN IntCmp(TyRank(a), TyRank(b))
    ELSE IF ~is_array(a) THEN IntCmp(a.v, b.v)
    ELSE IF a.shape # b.shape THEN IntSeqCmp(a.shape, b.shape)
    ELSE LET diff == {i \in 1..Min(Len(a.data), Len(b.data)) :
                         ValueCmp(a.data[i], b.data[i]) # 0}
         IN  IF diff # {} THEN ValueCmp(a.data[SetMin(diff)], b.data[SetMin(diff)])
             ELSE IntCmp(Len(a.data), Len(b.data))

---------------------------------------------------------------------------
(* Argument decoding *)

\* f64::round: to the nearest integer, halves away from zero.
Round(h) ==
    IF h >= 0 THEN (2 * h + Den) \div (2 * Den)
    ELSE -((2 * (-h) + Den) \div (2 * Den))

\* f as isize, f as usize: truncation toward zero.
Trunc(h) == IF h >= 0 THEN h \div Den ELSE -((-h) \div Den)

\* The entry test of as_shape: within EPSILON of an integer, and positive.
ShapeTest(h) == ~(Abs(h - Round(h) * Den) > 0 \/ Round(h) <= 0)

\* Value::as_shape
as_shape(v) ==
    IF is_array(v) THEN
        IF v.aty # "num" /\ v.shape # <<0>> THEN [ok |-> FALSE, list |-> <<>>]
        ELSE LET numbers == IF v.aty = "num" THEN v.data ELSE <<>>
             IN  IF \E i \in 1..Len(numbers) : ~ShapeTest(numbers[i].v)
                 THEN [ok |-> FALSE, list |-> <<>>]
                 ELSE [ok |-> TRUE,
                       list |-> [i \in 1..Len(numbers) |-> Round(numbers[i].v)]]
    ELSE IF is_num(v) THEN
        IF ~ShapeTest(v.v) THEN [ok |-> FALSE, list |-> <<>>]
        ELSE [ok |-> TRUE, list |-> <<Round(v.v)>>]
    ELSE [ok |-> FALSE, list |-> <<>>]

\* |f| f % 1.0 == 0.0
IndexTest(h) == h % Den = 0

\* |f| f % 1.0 == 0.0 && f >= 0.0
PositiveTest(h) == h % Den = 0 /\ h >= 0

\* The test closure a caller hands to as_number_list, named by the caller.
Test(caller, h) == IF caller = "as_positives" THEN PositiveTest(h) ELSE IndexTest(h)

\* Value::as_number_list; both callers convert by a cast (Trunc).
as_number_list(v, caller) ==
    IF is_array(v) THEN
        IF v.aty # "num" /\ v.shape # <<0>> THEN [ok |-> FALSE, list |-> <<>>]
        ELSE LET numbers == IF v.aty = "num" THEN v.data ELSE <<>>
             IN  IF \E i \in 1..Len(numbers) : ~Test(caller, numbers[i].v)
                 THEN [ok |-> FALSE, list |-> <<>>]
                 ELSE [ok |-> TRUE,
                       list |-> [i \in 1..Len(numbers) |-> Trunc(numbers[i].v)]]
    ELSE IF is_num(v) THEN
        IF ~Test(caller, v.v) THEN [ok |-> FALSE, list |-> <<>>]
        ELSE [ok |-> TRUE, list |-> <<Trunc(v.v)>>]
    ELSE [ok |-> FALSE, list |-> <<>>]

\* Value::as_indices
as_indices(v) == as_number_list(v, "as_indices")

\* Value::as_positives
as_positives(v) == as_number_list(v, "as_positives")

---------------------------------------------------------------------------
(* Take and drop *)

Ok(v) == [res |-> "Ok", val |-> v]

Err(v) == [res |-> "Err", val |-> v]

Panic(v) == [res |-> "Panic", val |-> v]

\* The first result of rs that is not Ok (what ? and collect::<Result> return,
\* and where a panic unwinds from), or Ok of every value.
Collect(rs) ==
    LET bad == {i \in 1..Len(rs) : rs[i].res # "Ok"}
    IN  IF bad # {} THEN rs[SetMin(bad)]
        ELSE Ok([i \in 1..Len(rs) |-> rs[i].val])

\* Value::fill_value
RECURSIVE fill_value(_)
fill_value(v) ==
    CASE v.ty = "num" -> Ok(N(0))
      [] v.ty = "char" -> Ok(Chr(Space))
      [] v.ty = "fn" -> Err(v)
      [] OTHER ->
            LET cells == into_values(v)
                fills == Collect([i \in 1..Len(cells) |-> fill_value(cells[i])])
            IN  IF fills.res # "Ok" THEN fills
                ELSE Ok(normalized(ArrayFromShapeData("value", v.shape, fills.val), 1))

\* take_array: Ok of the array taken, Err of a cell without a fill value, or
\* Panic where the code indexes out of bounds (index[0] of an empty index,
\* cells[0] of an array without cells).
RECURSIVE take_array(_, _)
take_array(index, array) ==
    IF index = <<>> THEN Panic(array)
    ELSE
    LET cells0 == into_values(array)
        take_count == index[1]
        take_abs == Abs(take_count)
        n == Len(cells0)
        kept == IF take_count >= 0 THEN Take(cells0, Min(take_abs, n))
                ELSE Drop(cells0, n - Min(take_abs, n))
    IN  IF n < take_abs /\ n = 0 THEN Panic(array)
        ELSE
        LET fill == IF n < take_abs THEN fill_value(kept[1]) ELSE Ok(N(0))
            pad == [i \in 1..(take_abs - n) |-> fill.val]
            cells == IF n >= take_abs THEN kept
                     ELSE IF take_count >= 0 THEN kept \o pad ELSE pad \o kept
            rest == Tail(index)
            shp == [array.shape EXCEPT ![1] = take_abs]
        IN  IF fill.res # "Ok" THEN fill
            ELSE IF rest = <<>> THEN
                Ok(normalized(ArrayFromShapeData("value", shp, cells),
                              IF Len(shp) > 1 THEN 1 ELSE 0))
            ELSE
                LET sub == Collect([i \in 1..Len(cells) |-> take_array(rest, cells[i])])
                IN  IF sub.res # "Ok" THEN sub
                    ELSE Ok(normalized(ArrayFromShapeData("value", shp, sub.val), 1))

\* Value::take: self is the index, from the array; the result replaces self.
Value_take(self, from) ==
    IF ~is_array(from) \/ rank(from) = 0 THEN Err(self)
    ELSE LET index == as_indices(self)
         IN  IF ~index.ok THEN Err(self)
             ELSE IF Len(index.list) > rank(from) THEN Err(self)
             ELSE LET taken == take_array(index.list, from)
                  IN  IF taken.res = "Ok" THEN taken
                      ELSE [res |-> taken.res, val |-> self]

\* The index drop hands to take_array for an axis of extent s.
DropIndex(i, s) == IF i >= 0 THEN Min(i - s, 0) ELSE Max(s + i, 0)

\* Value::drop
Value_drop(self, from) ==
    IF ~is_array(from) \/ rank(from) = 0 THEN Err(self)
    ELSE LET index == as_indices(self)
         IN  IF ~index.ok THEN Err(self)
             ELSE IF Len(index.list) > rank(from) THEN Err(self)
             ELSE LET idx == [j \in 1..Len(index.list) |->
                                 DropIndex(index.list[j], from.shape[j])]
                      taken == take_array(idx, from)
                  IN  IF taken.res = "Ok" THEN taken
                      ELSE [res |-> taken.res, val |-> self]

---------------------------------------------------------------------------
(* Rotate *)

\* [T]::chunks_mut(size) of a slice whose length is a multiple of size > 0.
Chunks(data, size) ==
    [i \in 1..(Len(data) \div size) |-> SubSeq(data, (i - 1) * size + 1, i * size)]

\* isize::rem_euclid
RemEuclid(a, b) == a % b

\* The three reversals of rotate: [0, mid), [mid, len), the whole slice.
ThreeReverse(data, at) ==
    Reverse(Reverse(Take(data, at)) \o Reverse(Drop(data, at)))

\* rotate: Ok of the rotated data, or Panic where the code indexes shape[0]
\* of an empty shape or asks for chunks of size 0.
RECURSIVE rotate(_, _, _)
rotate(index, shp, data) ==
    IF shp = <<>> \/ index = <<>> THEN Panic(data)
    ELSE
    LET cell_count == shp[1]
    IN  IF cell_count = 0 THEN Ok(data)
        ELSE
        LET cell_size == Len(data) \div cell_count
            offset == index[1]
            mid == RemEuclid(cell_count + offset, cell_count)
            turned == ThreeReverse(data, mid * cell_size)
            index1 == Tail(index)
            shape1 == Tail(shp)
        IN  IF index1 = <<>> \/ shape1 = <<>> THEN Ok(turned)
            ELSE IF cell_size = 0 THEN Panic(turned)
            ELSE LET cells == Chunks(turned, cell_size)
                     sub == Collect([i \in 1..Len(cells) |->
                                        rotate(index1, shape1, cells[i])])
                 IN  IF sub.res # "Ok" THEN Panic(turned)
                     ELSE Ok(Concat(sub.val))

\* Value::rotate: self is the index, target the array; the two are swapped
\* before the index is decoded.
Value_rotate(self, target) ==
    LET index == as_indices(self)
    IN  IF ~index.ok THEN Err(target)
        ELSE IF index.list = <<>> \/ \A j \in 1..Len(index.list) : index.list[j] = 0
             THEN Ok(target)
        ELSE IF ~is_array(target) \/ target.shape = <<0>> THEN Ok(target)
        ELSE LET r == rotate(index.list, target.shape, target.data)
             IN  IF r.res = "Ok" THEN Ok([target EXCEPT !.data = r.val])
                 ELSE Panic(target)

---------------------------------------------------------------------------
(* Pick and select *)

\* The loop of pick_impl: the slice of data left after the indices are
\* applied, one axis after the other.
RECURSIVE PickSlice(_, _, _)
PickSlice(shp, index, data) ==
    IF index = <<>> THEN data
    ELSE LET cell_count == shp[1]
             cell_size == Len(data) \div cell_count
             i == index[1]
             start == IF i >= 0 THEN i * cell_size ELSE Len(data) + i * cell_size
         IN  PickSlice(Tail(shp), Tail(index), SubSeq(data, start + 1, start + cell_size))

\* pick_impl: the residual array, or the scalar when every axis is indexed.
pick_impl(aty, shp, index, data) ==
    LET slice == PickSlice(shp, index, data)
    IN  IF Len(index) < Len(shp)
        THEN ArrayFromShapeData(aty, Drop(shp, Len(index)), slice)
        ELSE slice[1]

\* OutOfRange with the lower bound off by one: the index -s is refused.
OutOfRange_OffByOne(i, s) == i >= s \/ s + i <= 0

\* The range test of pick for one axis: the error branch of i >= s || s + i < 0.
OutOfRange(i, s) == i >= s \/ s + i < 0

\* pick
pick(index, array) ==
    IF Len(index) > Len(array.shape) THEN Err(array)
    ELSE IF \E j \in 1..Len(index) : OutOfRange(index[j], array.shape[j]) THEN Err(array)
    ELSE Ok(pick_impl(array.aty, array.shape, index, array.data))

\* Value::pick: self is the index, from the array.
Value_pick(self, from) ==
    IF ~is_array(from) \/ rank(from) = 0 THEN Err(self)
    ELSE LET index == as_indices(self)
         IN  IF ~index.ok THEN Err(self)
             ELSE LET r == pick(index.list, from)
                  IN  IF r.res = "Ok" THEN r ELSE Err(self)

\* Value::select: self is the list of indices, from the array.
Value_select(self, from) ==
    LET indices == as_indices(self)
    IN  IF ~indices.ok THEN Err(self)
        ELSE LET array == coerce_array(from)
                 selected == Collect([j \in 1..Len(indices.list) |->
                                         pick(<<indices.list[j]>>, array)])
             IN  IF selected.res # "Ok" THEN Err(self)
                 ELSE Ok(normalized(ArrayFromShapeData("value", <<Len(selected.val)>>,
                                                       selected.val), 1))

---------------------------------------------------------------------------
(* Windows *)

\* array_windows: Ok of the windowed array, Err of a window larger than the
\* axis, or Panic where the code indexes shape()[0] of a rank-0 array or asks
\* for windows of size 0.
RECURSIVE array_windows(_, _)
array_windows(sizes, array) ==
    IF sizes = <<>> THEN Ok(array)
    ELSE IF array.shape = <<>> THEN Panic(array)
    ELSE
    LET window_size == sizes[1]
        rest == Tail(sizes)
    IN  IF window_size > array.shape[1] THEN Err(array)
        ELSE IF window_size = 0 THEN Panic(array)
        ELSE
        LET window_count == array.shape[1] - window_size + 1
            cells == into_cells(array)
            inner == Collect([i \in 1..Len(cells) |-> array_windows(rest, cells[i])])
        IN  IF inner.res # "Ok" THEN [res |-> inner.res, val |-> array]
            ELSE Ok(ArrayFromArrays(
                    [p \in 1..window_count |->
                        ArrayFromArrays(SubSeq(inner.val, p, p + window_size - 1))]))

\* Value::windows: self is the list of window sizes, from the array.
Value_windows(self, from) ==
    LET array == coerce_array(from)
        sizes == as_positives(self)
    IN  IF ~sizes.ok THEN Err(self)
        ELSE IF sizes.list = <<>> THEN Ok(self)
        ELSE LET r == array_windows(sizes.list, array)
             IN  IF r.res = "Ok" THEN r ELSE [res |-> r.res, val |-> self]

---------------------------------------------------------------------------
(* Reshape *)

\* The loop of force_length's Less branch: push data[i], i += 1.
RECURSIVE ForceLoop(_, _, _)
ForceLoop(data, i, len) ==
    IF Len(data) < len THEN ForceLoop(Append(data, data[i + 1]), i + 1, len)
    ELSE data

\* force_length: Ok of the storage forced to len elements, or Panic where the
\* code reads data[0] of an empty storage.
force_length(data, len) ==
    IF Len(data) < len THEN
        IF data = <<>> THEN Panic(data) ELSE Ok(ForceLoop(data, 0, len))
    ELSE IF Len(data) > len THEN Ok(Take(data, len))
    ELSE Ok(data)

\* Array::reshape (array.rs): force the storage to the product of the new
\* shape, then set the shape.
Array_reshape(array, shp) ==
    LET forced == force_length(array.data, Prod(shp))
    IN  IF forced.res # "Ok" THEN Panic(array)
        ELSE Ok([array EXCEPT !.shape = shp, !.data = forced.val])

\* Value::reshape: self is the shape, other the value; the two are swapped
\* before the shape is decoded.
Value_reshape(self, other) ==
    LET shp == as_shape(self)
    IN  IF ~shp.ok THEN Err(other)
        ELSE Array_reshape(coerce_array(other), shp.list)

---------------------------------------------------------------------------
(* Grade, classify, member *)

\* GradeGreater that also moves a cell in front of an equal one.
GradeGreater_Unstable(cells, a, b) == ValueCmp(cells[a + 1], cells[b + 1]) >= 0

\* Ordering::Greater of the comparator of grade: cells[a].cmp(&cells[b]).
GradeGreater(cells, a, b) == ValueCmp(cells[a + 1], cells[b + 1]) > 0

\* One step of the stable insertion: x goes behind every element that is not
\* greater than it.
RECURSIVE InsertBy(_, _, _)
InsertBy(sorted, x, cells) ==
    IF sorted = <<>> THEN <<x>>
    ELSE IF GradeGreater(cells, sorted[Len(sorted)], x)
         THEN Append(InsertBy(Take(sorted, Len(sorted) - 1), x, cells), sorted[Len(sorted)])
         ELSE Append(sorted, x)

\* [usize]::sort_by: the stable sort of the standard library.
RECURSIVE sort_by(_, _)
sort_by(indices, cells) ==
    IF indices = <<>> THEN <<>>
    ELSE InsertBy(sort_by(Take(indices, Len(indices) - 1), cells),
                  indices[Len(indices)], cells)

\* Value::grade
Value_grade(self) ==
    LET arr == coerce_array(self)
    IN  IF rank(arr) < 1 THEN Err(arr)
        ELSE LET indices == [i \in 1..arr.shape[1] |-> i - 1]
                 cells == into_values(arr)
                 sorted == sort_by(indices, cells)
             IN  Ok(ArrayFromShapeData("num", <<Len(sorted)>>,
                                       [i \in 1..Len(sorted) |-> N(sorted[i])]))

\* ClassifyLoop that numbers a new class by the cells read so far
\* (classified.len() for classes.len()).
RECURSIVE ClassifyLoop_ByPosition(_, _, _)
ClassifyLoop_ByPosition(cells, classes, classified) ==
    IF cells = <<>> THEN classified
    ELSE LET val == Head(cells)
             found == {c \in 1..Len(classes) : ValueCmp(classes[c].cell, val) = 0}
             new_class == Len(classified)
         IN  IF found # {}
             THEN ClassifyLoop_ByPosition(Tail(cells), classes,
                      Append(classified, N(classes[SetMin(found)].class)))
             ELSE ClassifyLoop_ByPosition(Tail(cells),
                      Append(classes, [cell |-> val, class |-> new_class]),
                      Append(classified, N(new_class)))

\* The loop of classify: classes is the map from cell to class, held as the
\* list of the distinct cells in the order of their classes.
RECURSIVE ClassifyLoop(_, _, _)
ClassifyLoop(cells, classes, classified) ==
    IF cells = <<>> THEN classified
    ELSE LET val == Head(cells)
             found == {c \in 1..Len(classes) : ValueCmp(classes[c], val) = 0}
             new_class == Len(classes)
         IN  IF found # {}
             THEN ClassifyLoop(Tail(cells), classes,
                               Append(classified, N(SetMin(found) - 1)))
             ELSE ClassifyLoop(Tail(cells), Append(classes, val),
                               Append(classified, N(new_class)))

\* Value::classify
Value_classify(self) ==
    IF rank(self) < 1 THEN Err(self)
    ELSE Ok(ArrayFromVec("num", ClassifyLoop(into_values(self), <<>>, <<>>)))

\* set.contains(&val) as u8 as f64
Contains(set, val) ==
    IF \E i \in 1..Len(set) : ValueCmp(set[i], val) = 0 THEN N(1) ELSE N(0)

\* Value::member with the operands exchanged: the cells of the set are tested.
Value_member_Swapped(self, of) ==
    LET members == into_values(coerce_array(of))
        set == into_values(coerce_array(self))
    IN  Ok(ArrayFromVec("num", [i \in 1..Len(members) |-> Contains(set, members[i])]))

\* Value::member: self holds the cells tested, of the cells of the set.
Value_member(self, of) ==
    LET members == into_values(coerce_array(self))
        set == into_values(coerce_array(of))
    IN  Ok(ArrayFromVec("num", [i \in 1..Len(members) |-> Contains(set, members[i])]))

---------------------------------------------------------------------------
(* The sort kernel *)

\* A comparator handed to sort_array (a CmpFn<T>), as a value the caller holds.
CmpFn(name) == [ty |-> "cmp", name |-> name]

\* cmp(l, r) as -1 (Less), 0 (Equal), 1 (Greater): "exact" orders the elements
\* by their value, "key" by their integer part, so that elements that differ
\* compare Equal (as 0.0 and -0.0 do for the order of f64).
cmp(f, l, r) ==
    IF f.name = "key" THEN IntCmp(Trunc(l.v), Trunc(r.v)) ELSE IntCmp(l.v, r.v)

\* The ordering of two chunks in the merge: that of the first pair of
\* elements that is not Equal, and Equal when there is none.
ChunkOrdering(f, l, r) ==
    LET diff == {i \in 1..Min(Len(l), Len(r)) : cmp(f, l[i], r[i]) # 0}
    IN  IF diff = {} THEN 0 ELSE cmp(f, l[SetMin(diff)], r[SetMin(diff)])

\* The loop of merge_sort_chunks over the chunks of the two sorted halves: a
\* left chunk is taken when it is Less, a right chunk otherwise.
RECURSIVE MergeLoop(_, _, _, _)
MergeLoop(f, left, right, tmp) ==
    IF left # <<>> /\ right # <<>> THEN
        IF ChunkOrdering(f, Head(left), Head(right)) < 0
        THEN MergeLoop(f, Tail(left), right, tmp \o Head(left))
        ELSE MergeLoop(f, left, Tail(right), tmp \o Head(right))
    ELSE IF left # <<>> THEN MergeLoop(f, Tail(left), right, tmp \o Head(left))
    ELSE IF right # <<>> THEN MergeLoop(f, left, Tail(right), tmp \o Head(right))
    ELSE tmp

\* merge_sort_chunks: Ok of the sorted data, or Panic where the code divides
\* by a chunk size of 0 or its assert_ne!(cells, 0) fails.
RECURSIVE merge_sort_chunks(_, _, _)
merge_sort_chunks(chunk_size, data, f) ==
    IF chunk_size = 0 THEN Panic(data)
    ELSE
    LET cells == Len(data) \div chunk_size
    IN  IF cells = 0 THEN Panic(data)
        ELSE IF cells = 1 THEN Ok(data)
        ELSE
        LET mid == cells \div 2
            left == merge_sort_chunks(chunk_size, Take(data, mid * chunk_size), f)
            right == merge_sort_chunks(chunk_size, Drop(data, mid * chunk_size), f)
        IN  IF left.res # "Ok" \/ right.res # "Ok" THEN Panic(data)
            ELSE Ok(MergeLoop(f, Chunks(left.val, chunk_size),
                              Chunks(right.val, chunk_size), <<>>))

\* sort_array, on the shape and the storage of an array.
sort_array(array, f) ==
    IF array.shape = <<>> THEN Ok(array)
    ELSE LET chunk_size == Prod(Tail(array.shape))
             sorted == merge_sort_chunks(chunk_size, array.data, f)
         IN  IF sorted.res # "Ok" THEN Panic(array)
             ELSE Ok([array EXCEPT !.data = sorted.val])

---------------------------------------------------------------------------
(* The values the verbs are called on *)

\* Element k (from 0) of the storage of an operand array, by kind of content.
Elem(kind, k) ==
    CASE kind = "iota" -> N(k + 1)
      [] kind = "desc" -> N(-k)
      [] kind = "mod2" -> N(k % 2)
      [] kind = "half" -> N(k \div 2)
      [] kind = "frac" -> Num(Den + k)
      [] kind = "fracdesc" -> Num(Den * MaxExt * MaxExt - k)
      [] OTHER -> Chr(97 + k)

Kinds == {"iota", "desc", "mod2", "half", "chars"}

Shapes == {<<n>> : n \in 0..MaxExt} \cup {<<n, m>> : n, m \in 0..MaxExt}

MkArray(kind, shp) ==
    Arr(IF kind = "chars" THEN "char" ELSE "num", shp,
        [k \in 1..Prod(shp) |-> Elem(kind, k - 1)])

Arrays == {MkArray(kind, shp) : kind \in Kinds, shp \in Shapes}

\* A rank-0 array of one number.
Rank0 == Arr("num", <<>>, <<N(1)>>)

\* The arrays sort_array is called on: the operand arrays, and arrays of
\* numbers that differ and have the same integer part.
SortArrays ==
    Arrays \cup {Rank0}
    \cup {MkArray(kind, shp) : kind \in {"frac", "fracdesc"}, shp \in Shapes}

\* The second operands: arrays, and values that are no array of rank >= 1.
Operands == Arrays \cup {N(1), Chr(97), Fn, Rank0}

IdxRange == (-(MaxExt + 1))..(MaxExt + 1)

IndexLists ==
    {Arr("num", <<0>>, <<>>)}
    \cup {Arr("num", <<1>>, <<N(i)>>) : i \in IdxRange}
    \cup {Arr("num", <<2>>, <<N(i), N(j)>>) : i, j \in IdxRange}

\* The receivers of the verbs that decode self: integers, lists of integers,
\* and values a decoder has to refuse or to look at twice.
Receivers ==
    {N(i) : i \in IdxRange} \cup IndexLists
    \cup {Num(1), Num(-1), Arr("num", <<2>>, <<N(1), Num(1)>>),
          Chr(97), Fn, Rank0,
          Arr("char", <<2>>, <<Chr(97), Chr(98)>>), Arr("char", <<0>>, <<>>),
          Arr("num", <<2, 2>>, <<N(1), N(2), N(1), N(1)>>),
          Arr("num", <<1, 2>>, <<N(-1), N(0)>>)}

---------------------------------------------------------------------------
(* The caller: it calls one verb on a receiver and an operand, looks at the *)
(* result and at the receiver, and goes on to the next call.               *)

VARIABLES
    pc,      \* "idle" before a call, "returned" after it
    op,      \* the verb or decoder called
    recv,    \* the receiver as it was when the call was made
    arg,     \* the second operand of the call
    self,    \* the receiver after the call
    status,  \* "Ok", "Err" (an Err through the Result channel) or "Panic"
    list     \* the list a decoder returned

vars == <<pc, op, recv, arg, self, status, list>>

None == Num(0)

Init ==
    /\ pc = "idle"
    /\ op = "none"
    /\ recv = None
    /\ arg = None
    /\ self = None
    /\ status = "Ok"
    /\ list = <<>>

Returns(name, a, b, r) ==
    /\ pc' = "returned"
    /\ op' = name
    /\ recv' = a
    /\ arg' = b
    /\ self' = r.val
    /\ status' = r.res
    /\ list' = <<>>

Decodes(name, a, d) ==
    /\ pc' = "returned"
    /\ op' = name
    /\ recv' = a
    /\ arg' = None
    /\ self' = a
    /\ status' = IF d.ok THEN "Ok" ELSE "Err"
    /\ list' = d.list

CallTake ==
    /\ pc = "idle"
    /\ \E a \in Receivers, b \in Operands : Returns("take", a, b, Value_take(a, b))

CallDrop ==
    /\ pc = "idle"
    /\ \E a \in Receivers, b \in Operands : Returns("drop", a, b, Value_drop(a, b))

CallRotate ==
    /\ pc = "idle"
    /\ \E a \in Receivers, b \in Operands : Returns("rotate", a, b, Value_rotate(a, b))

CallPick ==
    /\ pc = "idle"
    /\ \E a \in Receivers, b \in Operands : Returns("pick", a, b, Value_pick(a, b))

CallSelect ==
    /\ pc = "idle"
    /\ \E a \in Receivers, b \in Operands : Returns("select", a, b, Value_select(a, b))

CallWindows ==
    /\ pc = "idle"
    /\ \E a \in Receivers, b \in Operands : Returns("windows", a, b, Value_windows(a, b))

CallReshape ==
    /\ pc = "idle"
    /\ \E a \in Receivers, b \in Operands : Returns("reshape", a, b, Value_reshape(a, b))

CallGrade ==
    /\ pc = "idle"
    /\ \E a \in Operands : Returns("grade", a, None, Value_grade(a))

CallClassify ==
    /\ pc = "idle"
    /\ \E a \in Operands : Returns("classify", a, None, Value_classify(a))

CallMember ==
    /\ pc = "idle"
    /\ \E a \in Operands, b \in Operands : Returns("member", a, b, Value_member(a, b))

CallAsShape ==
    /\ pc = "idle"
    /\ \E a \in Receivers \cup Operands : Decodes("as_shape", a, as_shape(a))

CallAsIndices ==
    /\ pc = "idle"
    /\ \E a \in Receivers \cup Operands : Decodes("as_indices", a, as_indices(a))

CallAsPositives ==
    /\ pc = "idle"
    /\ \E a \in Receivers \cup Operands : Decodes("as_positives", a, as_positives(a))

CallSortArray ==
    /\ pc = "idle"
    /\ \E a \in SortArrays, f \in {CmpFn("exact"), CmpFn("key")} :
          Returns("sort_array", a, f, sort_array(a, f))

\* The caller has read the result and is ready for the next call.
Next_call ==
    /\ pc = "returned"
    /\ pc' = "idle"
    /\ op' = "none"
    /\ recv' = None
    /\ arg' = None
    /\ self' = None
    /\ status' = "Ok"
    /\ list' = <<>>

Next ==
    \/ CallTake
    \/ CallDrop
    \/ CallRotate
    \/ CallPick
    \/ CallSelect
    \/ CallWindows
    \/ CallReshape
    \/ CallGrade
    \/ CallClassify
    \/ CallMember
    \/ CallAsShape
    \/ CallAsIndices
    \/ CallAsPositives
    \/ CallSortArray
    \/ Next_call

Spec == Init /\ [][Next]_vars

---------------------------------------------------------------------------
(* What the claims are stated with: multi-indices into row-major storage.   *)

\* The multi-indices (from 0) of an array of shape shp.
RECURSIVE MultiIdx(_)
MultiIdx(shp) ==
    IF shp = <<>> THEN {<<>>}
    ELSE {<<i>> \o m : i \in 0..(shp[1] - 1), m \in MultiIdx(Tail(shp))}

\* The row-major offset of multi-index m in shape shp.
RECURSIVE Offset(_, _)
Offset(shp, m) ==
    IF m = <<>> THEN 0
    ELSE m[1] * Prod(Tail(shp)) + Offset(Tail(shp), Tail(m))

\* The element of array a at the full multi-index m.
At(a, m) == a.data[Offset(a.shape, m) + 1]

Returned(name) == pc = "returned" /\ op = name

\* The call had an array of rank >= 1 as operand and an index list no longer
\* than its rank as receiver.
IndexedCall == is_array(arg) /\ rank(arg) >= 1 /\ as_indices(recv).ok
               /\ Len(as_indices(recv).list) <= rank(arg)

\* The fill value of the elements of array a.
FillOf(a) == IF a.aty = "char" THEN Chr(Space) ELSE N(0)

\* take: position p of an axis of extent s taken with index i comes from
\* position TakeFrom of the source, or is a fill when TakeFrom is -1.
TakeFrom(i, s, p) ==
    LET kept == Min(Abs(i), s)
    IN  IF i >= 0 THEN (IF p < kept THEN p ELSE -1)
        ELSE (IF p >= Abs(i) - kept THEN s - kept + (p - (Abs(i) - kept)) ELSE -1)

(* C1: take(I, A), A of rank >= 1, I of length k <= rank(A): the extent of    *)
(* every axis j < k of the result is |i_j|, the other extents are those of A; *)
(* for i_j >= 0 the axis holds the first min(|i_j|, s_j) cells, then fills,   *)
(* for i_j < 0 fills and then the last min(|i_j|, s_j) cells; the fill is 0   *)
(* for numbers and a space for characters.                                    *)
C1_TakeContract ==
    (Returned("take") /\ IndexedCall) =>
        LET I == as_indices(recv).list
            k == Len(I)
            s == arg.shape
            src(m) == [j \in 1..Len(s) |->
                          IF j <= k THEN TakeFrom(I[j], s[j], m[j]) ELSE m[j]]
        IN  /\ status = "Ok"
            /\ is_array(self)
            /\ self.shape = [j \in 1..Len(s) |-> IF j <= k THEN Abs(I[j]) ELSE s[j]]
            /\ Len(self.data) = Prod(self.shape)
            /\ \A m \in MultiIdx(self.shape) :
                  At(self, m) = IF \E j \in 1..Len(s) : src(m)[j] = -1
                                THEN FillOf(arg) ELSE At(arg, src(m))

(* C2: drop(I, A), A of rank >= 1, I of length <= rank(A): the extent of     *)
(* every indexed axis j is max(0, s_j - |i_j|); the cells kept are the last   *)
(* s_j - i_j for i_j >= 0 and the first s_j + i_j for i_j < 0, in their       *)
(* order, and no fill value is inserted.                                      *)
C2_DropContract ==
    (Returned("drop") /\ IndexedCall) =>
        LET I == as_indices(recv).list
            k == Len(I)
            s == arg.shape
            src(m) == [j \in 1..Len(s) |->
                          IF j <= k /\ I[j] >= 0 THEN m[j] + I[j] ELSE m[j]]
        IN  /\ status = "Ok"
            /\ is_array(self)
            /\ self.shape = [j \in 1..Len(s) |->
                                IF j <= k THEN Max(0, s[j] - Abs(I[j])) ELSE s[j]]
            /\ Len(self.data) = Prod(self.shape)
            /\ \A m \in MultiIdx(self.shape) : At(self, m) = At(arg, src(m))

\* The index list with every entry negated, as a Value.
Negated(I) == Arr("num", <<Len(I)>>, [j \in 1..Len(I) |-> N(-I[j])])

(* C3: rotate(I, A), A an array (here of rank >= 1), I an integer index      *)
(* list: the result has the shape of A, its cell at position k of axis        *)
(* j < |I| is the cell that was at (k + i_j) mod s_j, and rotating the        *)
(* result by -I gives A back.                                                 *)
C3_RotateContract ==
    (Returned("rotate") /\ is_array(arg) /\ rank(arg) >= 1 /\ as_indices(recv).ok) =>
        LET I == as_indices(recv).list
            k == Len(I)
            s == arg.shape
            src(m) == [j \in 1..Len(s) |->
                          IF j <= k THEN (m[j] + I[j]) % s[j] ELSE m[j]]
        IN  /\ status = "Ok"
            /\ is_array(self)
            /\ self.shape = s
            /\ Len(self.data) = Len(arg.data)
            /\ \A m \in MultiIdx(s) : At(self, m) = At(arg, src(m))
            /\ Value_rotate(Negated(I), self) = Ok(arg)

\* Every index of I lies in [-s_j, s_j) and I is no longer than the shape s.
InRange(I, s) ==
    /\ Len(I) <= Len(s)
    /\ \A j \in 1..Len(I) : -s[j] <= I[j] /\ I[j] < s[j]

(* C4: pick(I, A), A of rank >= 1: it succeeds exactly when |I| <= rank(A)   *)
(* and every i_j lies in [-s_j, s_j), and returns an error otherwise; on      *)
(* success the result is the sub-array of A at the multi-index (i_j mod s_j), *)
(* a scalar when |I| = rank(A) and else an array of shape shape(A)[|I|:].     *)
C4_PickContract ==
    (Returned("pick") /\ is_array(arg) /\ rank(arg) >= 1 /\ as_indices(recv).ok) =>
        LET I == as_indices(recv).list
            k == Len(I)
            s == arg.shape
        IN  IF ~InRange(I, s) THEN status = "Err"
            ELSE LET at == [j \in 1..k |-> I[j] % s[j]]
                 IN  /\ status = "Ok"
                     /\ IF k = Len(s) THEN ~is_array(self) /\ self = At(arg, at)
                        ELSE /\ is_array(self)
                             /\ self.shape = Drop(s, k)
                             /\ Len(self.data) = Prod(self.shape)
                             /\ \A m \in MultiIdx(self.shape) :
                                   At(self, m) = At(arg, at \o m)

\* C4: a pick with a negative index into an array of rank 2 has returned a
\* row that is not empty.
C4_Witness ==
    /\ Returned("pick") /\ status = "Ok" /\ is_array(arg) /\ rank(arg) = 2
    /\ as_indices(recv).ok /\ Len(as_indices(recv).list) = 1
    /\ as_indices(recv).list[1] < 0
    /\ is_array(self) /\ Len(self.data) >= 2

\* The call had an array of rank >= 1 as operand and a list of 1..rank
\* positive window sizes as receiver.
WindowedCall ==
    /\ is_array(arg) /\ rank(arg) >= 1 /\ as_positives(recv).ok
    /\ Len(as_positives(recv).list) \in 1..rank(arg)
    /\ \A j \in 1..Len(as_positives(recv).list) : as_positives(recv).list[j] >= 1

(* C5: windows(sizes, A), sizes w_0..w_{k-1} with k <= rank(A): if some      *)
(* w_j > s_j the call returns an error; otherwise the result has shape        *)
(* [n_0, .., n_{k-1}, w_0, .., w_{k-1}, *shape(A)[k:]] with                   *)
(* n_j = s_j - w_j + 1, and its window at start p is the sub-array of A at    *)
(* positions p_j .. p_j + w_j - 1 of every axis j.                            *)
C5_WindowsContract ==
    (Returned("windows") /\ WindowedCall) =>
        LET w == as_positives(recv).list
            k == Len(w)
            s == arg.shape
            n == [j \in 1..k |-> s[j] - w[j] + 1]
            tail == Drop(s, k)
        IN  IF \E j \in 1..k : w[j] > s[j] THEN status = "Err"
            ELSE /\ status = "Ok"
                 /\ is_array(self)
                 /\ self.shape = n \o w \o tail
                 /\ \A p \in MultiIdx(n), q \in MultiIdx(w), t \in MultiIdx(tail) :
                       At(self, p \o q \o t) = At(arg, [j \in 1..k |-> p[j] + q[j]] \o t)

(* C6: reshape(target_shape, v): when the shape argument decodes, the result *)
(* has shape target_shape and prod(target_shape) storage elements, element k  *)
(* being element k mod n of the n elements of v's flat storage.               *)
C6_ReshapeContract ==
    (Returned("reshape") /\ as_shape(recv).ok) =>
        LET target == as_shape(recv).list
            flat == coerce_array(arg).data
        IN  /\ status = "Ok"
            /\ is_array(self)
            /\ self.shape = target
            /\ Len(self.data) = Prod(target)
            /\ \A k \in 0..(Prod(target) - 1) :
                  self.data[k + 1] = flat[(k % Len(flat)) + 1]

\* The index a number of the result stands for.
AsIndex(v) == Trunc(v.v)

(* C7: grade(A), A of rank >= 1: the result is a rank-1 array of length      *)
(* s_0(A), a permutation of 0..s_0(A)-1; the major cells of A listed in that  *)
(* order, which is select(grade(A), A), are non-decreasing under the Value    *)
(* order, and cells that compare equal keep the order of their indices.       *)
(* grade of a value of rank 0 returns an error.                               *)
C7_GradeContract ==
    Returned("grade") =>
        IF rank(recv) < 1 THEN status = "Err"
        ELSE LET cells == into_values(recv)
                 n == recv.shape[1]
                 g == [i \in 1..Len(self.data) |-> AsIndex(self.data[i])]
                 sel == Value_select(self, recv)
             IN  /\ status = "Ok"
                 /\ is_array(self) /\ self.aty = "num" /\ self.shape = <<n>>
                 /\ Len(self.data) = n
                 /\ \A i \in 1..n : self.data[i] = N(g[i])
                 /\ {g[i] : i \in 1..n} = 0..(n - 1)
                 /\ \A i, j \in 1..n : i < j =>
                       /\ ValueCmp(cells[g[i] + 1], cells[g[j] + 1]) <= 0
                       /\ ValueCmp(cells[g[i] + 1], cells[g[j] + 1]) = 0 => g[i] < g[j]
                 /\ sel.res = "Ok"
                 /\ into_values(sel.val) = [i \in 1..n |-> cells[g[i] + 1]]

\* C7: a grade has returned a permutation that moves cells and holds two
\* cells that compare equal.
C7_Witness ==
    /\ Returned("grade") /\ status = "Ok" /\ rank(recv) >= 1 /\ recv.shape[1] >= 3
    /\ \E i, j \in 1..recv.shape[1] :
          i < j /\ ValueCmp(into_values(recv)[i], into_values(recv)[j]) = 0
    /\ \E i \in 1..Len(self.data) : self.data[i] # N(i - 1)

(* C8: classify(A), A of rank >= 1: the result is a rank-1 numeric array of  *)
(* length s_0(A); two positions carry the same class exactly when their major *)
(* cells are equal; the classes used are 0..k-1 for k distinct major cells,   *)
(* and class c first occurs before class c+1.  classify of a value of rank 0  *)
(* returns an error.                                                          *)
C8_ClassifyContract ==
    Returned("classify") =>
        IF rank(recv) < 1 THEN status = "Err"
        ELSE LET cells == into_values(recv)
                 n == recv.shape[1]
                 id == [i \in 1..Len(self.data) |-> AsIndex(self.data[i])]
                 k == Cardinality({cells[i] : i \in 1..n})
                 first(c) == SetMin({i \in 1..n : id[i] = c})
             IN  /\ status = "Ok"
                 /\ is_array(self) /\ self.aty = "num" /\ self.shape = <<n>>
                 /\ Len(self.data) = n
                 /\ \A i \in 1..n : self.data[i] = N(id[i])
                 /\ \A i, j \in 1..n : (id[i] = id[j]) <=> (cells[i] = cells[j])
                 /\ {id[i] : i \in 1..n} = 0..(k - 1)
                 /\ \A c \in 0..(k - 2) : first(c) < first(c + 1)

\* C8: a classify has returned two classes, one of them for two cells.
C8_Witness ==
    /\ Returned("classify") /\ status = "Ok" /\ Len(self.data) >= 3
    /\ \E i, j \in 1..Len(self.data) : i < j /\ self.data[i] = self.data[j]
    /\ \E i \in 1..Len(self.data) : self.data[i] = N(1)

\* Two Values are equal: scalars of one type and value, or arrays of one
\* shape whose elements are equal, whatever their storage variants.
RECURSIVE SameValue(_, _)
SameValue(a, b) ==
    IF is_array(a) /\ is_array(b)
    THEN /\ a.shape = b.shape
         /\ Len(a.data) = Len(b.data)
         /\ \A i \in 1..Len(a.data) : SameValue(a.data[i], b.data[i])
    ELSE a = b

\* The mask entry of cell c for the set of the major cells of b.
MaskOf(c, b) ==
    IF \E i \in 1..Len(into_values(coerce_array(b))) :
          SameValue(into_values(coerce_array(b))[i], c)
    THEN N(1) ELSE N(0)

(* C9, as claimed: member(A, B) is a numeric mask with the shape of A, for   *)
(* operands of rank 0 and of rank >= 2 too, whose entries are 1 or 0.         *)
C9_MemberSameShape ==
    Returned("member") =>
        /\ status = "Ok"
        /\ shape(self) = shape(recv)
        /\ is_array(self) =>
              \A i \in 1..Len(self.data) : self.data[i] \in {N(0), N(1)}

(* C9, amended: member(A, B) is a rank-1 numeric mask with one entry for     *)
(* every major cell of A (s_0(A) entries for A of rank >= 1, one entry for A  *)
(* of rank 0), the entry being 1 when that major cell is equal to some major  *)
(* cell of B and 0 otherwise.                                                 *)
C9_MemberContract ==
    Returned("member") =>
        LET cells == into_values(coerce_array(recv))
            n == IF rank(recv) >= 1 THEN recv.shape[1] ELSE 1
        IN  /\ status = "Ok"
            /\ is_array(self) /\ self.aty = "num" /\ self.shape = <<n>>
            /\ Len(self.data) = n
            /\ \A i \in 1..n : self.data[i] = MaskOf(cells[i], arg)

\* C9: a member of an operand of rank 2 has returned a mask with a 1 and a 0.
C9_Witness ==
    /\ Returned("member") /\ status = "Ok" /\ rank(recv) = 2 /\ rank(arg) = 2
    /\ \E i, j \in 1..Len(self.data) : self.data[i] = N(1) /\ self.data[j] = N(0)

\* What the claim lets a decoder accept: a numeric scalar (a rank-0 numeric
\* array is one), a rank-1 numeric array, or an empty list.
Decodable(v) ==
    \/ is_num(v)
    \/ is_array(v) /\ v.aty = "num" /\ Len(v.shape) <= 1
    \/ is_array(v) /\ v.shape = <<0>>

\* The numbers of a decodable value, in order.
Entries(v) == IF is_num(v) THEN <<v>> ELSE IF v.aty = "num" THEN v.data ELSE <<>>

\* The integer/sign test the claim gives the decoder called.
EntryTest(name, h) ==
    /\ h % Den = 0
    /\ name = "as_shape" => h > 0
    /\ name = "as_positives" => h >= 0

(* C10: as_shape, as_indices and as_positives succeed only for a numeric     *)
(* scalar, a rank-1 numeric array or an empty list; for any other argument    *)
(* (a numeric array of rank >= 2 among them) and for any entry that fails the *)
(* decoder's test they return the error; on success the list has one entry    *)
(* per element, in order.                                                     *)
C10_DecoderContract ==
    (pc = "returned" /\ op \in {"as_shape", "as_indices", "as_positives"}) =>
        IF Decodable(recv) /\ \A i \in 1..Len(Entries(recv)) : EntryTest(op, Entries(recv)[i].v)
        THEN /\ status = "Ok"
             /\ list = [i \in 1..Len(Entries(recv)) |-> Entries(recv)[i].v \div Den]
        ELSE status = "Err"

\* The chunks of size Prod(shape[1:]) of the storage of array a.
ChunksOf(a) == Chunks(a.data, Prod(Tail(a.shape)))

\* The chunks of cs that compare Equal to chunk c, in their order in cs.
EqualTo(f, cs, c) ==
    LET same(x) == ChunkOrdering(f, x, c) = 0
    IN  SelectSeq(cs, same)

\* How often chunk c occurs in cs.
Occurs(cs, c) == Cardinality({i \in 1..Len(cs) : cs[i] = c})

\* The call of sort_array has returned, for an array that has chunks.
Sorted == Returned("sort_array") /\ status = "Ok" /\ rank(recv) >= 1

(* C11: sort_array(shape, data, cmp) is a stable sort of the chunks of size   *)
(* prod(shape[1:]): after it returns, data is a permutation of the original   *)
(* chunks, the chunks are non-decreasing under the lexicographic elementwise  *)
(* cmp order, and chunks that compare Equal keep their original order.        *)
C11_SortStable ==
    Sorted =>
        LET before == ChunksOf(recv)
            after == ChunksOf(self)
        IN  /\ self.shape = recv.shape
            /\ Len(after) = Len(before)
            /\ \A i \in 1..Len(before) : Occurs(after, before[i]) = Occurs(before, before[i])
            /\ \A i, j \in 1..Len(after) : i < j => ChunkOrdering(arg, after[i], after[j]) <= 0
            /\ \A i \in 1..Len(before) :
                  EqualTo(arg, after, before[i]) = EqualTo(arg, before, before[i])

\* The verbs of the model that return through the Result channel.
Verbs == {"reshape", "rotate", "take", "drop", "pick", "select", "windows",
          "grade", "classify"}

\* A scalar and the rank-0 array of it are one value to the caller.
SameObserved(a, b) ==
    (IF is_array(a) THEN a ELSE coerce_array(a)) = (IF is_array(b) THEN b ELSE coerce_array(b))

(* C12: whenever a verb returns an error, the receiver Value the caller       *)
(* observes after the call is the value it held before the call.              *)
C12_ReceiverKeptOnError ==
    (pc = "returned" /\ op \in Verbs /\ status = "Err") => SameObserved(self, recv)

(* C13: every call of take, drop, pick, select, rotate, windows, reshape and  *)
(* sort_array, on any array and any argument its decoder accepts, completes   *)
(* with a result or returns an error; no call aborts abnormally.              *)
C13_NoAbnormalAbort ==
    (pc = "returned" /\ op \in {"take", "drop", "pick", "select", "rotate",
                                "windows", "reshape", "sort_array"})
        => status # "Panic"

=============================================================================
